---- MODULE Spec2Model ----
(***************************************************************************)
(* Model of dags/app.py: the Airflow DAG fetch_and_store_books_with_       *)
(* google_api.  Three tasks, create_table >> fetch_book_data >>            *)
(* insert_book_data, over one Postgres table `book` and one XCom key       *)
(* `book_data`.                                                            *)
(*                                                                         *)
(* Strings are sequences of one-character strings, so that slicing         *)
(* (s[:200]), joining and formatting are computed, not assumed.            *)
(* Optional values (a dict key that may be absent, an XCom that may be     *)
(* None) are sequences of length 0 (absent) or 1 (present).                *)
(***************************************************************************)
EXTENDS Integers, Sequences, FiniteSets, TLC

VARIABLES
    phase,      \* the task now up: "create", "fetch", "insert"; "success" or "failed" once the run is over
    calls,      \* calls made of a function taken on its own
    tries,      \* tries made of the task now up
    table,      \* rows of the table book
    seq,        \* next value of the SERIAL sequence behind book.id
    xcom,       \* XCom book_data of fetch_book_data: <<>> (None) or <<list>>
    fetched,    \* what the last call of fetch_books_from_google_api did
    persisted,  \* what the last call of insert_book_data_into_postgres did
    norm        \* the normalization step applied on its own

vars == <<phase, calls, tries, table, seq, xcom, fetched, persisted, norm>>

-----------------------------------------------------------------------------
(* Bounds of the model *)

MaxItems == 2       \* items in one API response
MaxBatch == 2       \* records in a batch handed to insert on its own
MaxCalls == 3       \* calls of insert on its own
MaxNormLen == 3     \* records given to the normalization step on its own

(* Constants of the program *)

ApiMaxResults == 40
TitleMax == 200
FieldMax == 50
DefaultNumBooks == 25
Retries == 2

-----------------------------------------------------------------------------
(* Strings *)

Min(a, b) == IF a <= b THEN a ELSE b

\* s[:n] of Python, n >= 0
Take(s, n) == SubSeq(s, 1, Min(n, Len(s)))

Pad(n) == [i \in 1..n |-> "a"]

Digits == <<"0", "1", "2", "3", "4", "5", "6", "7", "8", "9">>

\* str(n) / f"{n}" for a natural number
RECURSIVE Str(_)
Str(n) == IF n < 10 THEN <<Digits[n + 1]>>
          ELSE Str(n \div 10) \o <<Digits[(n % 10) + 1]>>

\* sep.join(parts)
RECURSIVE Join(_, _)
Join(parts, sep) ==
    IF Len(parts) = 0 THEN <<>>
    ELSE IF Len(parts) = 1 THEN parts[1]
    ELSE parts[1] \o sep \o Join(Tail(parts), sep)

NA == <<"N", "/", "A">>
Free == <<"F", "r", "e", "e">>
Dollar == <<"$">>
UnknownTitle == <<"U", "n", "k", "n", "o", "w", "n", " ", "T", "i", "t", "l", "e">>
UnknownAuthor == <<"U", "n", "k", "n", "o", "w", "n", " ", "A", "u", "t", "h", "o", "r">>
CommaSpace == <<",", " ">>
ForSale == <<"FOR_SALE">>
IsFree == <<"FREE">>

\* dict.get(key, default) on an optional value
Get(opt, default) == IF Len(opt) = 0 THEN default ELSE opt[1]

-----------------------------------------------------------------------------
(* Parsing of one item of the API response *)

\* price of an item
ItemPrice(sale_info) ==
    IF sale_info.saleability = ForSale THEN
        IF Len(sale_info.retailPrice) = 0 \/ sale_info.retailPrice[1] = [amount |-> <<>>, currencyCode |-> <<>>]
        THEN NA
        ELSE LET price_info == sale_info.retailPrice[1]
                 currency == Get(price_info.currencyCode, Dollar)
             IN  IF Len(price_info.amount) = 0 THEN NA
                 ELSE Str(price_info.amount[1]) \o <<" ">> \o currency
    ELSE IF sale_info.saleability = IsFree THEN Free
    ELSE NA

\* rating of an item
ItemRating(volume_info) ==
    IF Len(volume_info.averageRating) = 0 THEN NA
    ELSE Str(volume_info.averageRating[1]) \o <<"/", "5", " ", "(">>
         \o Str(Get(volume_info.ratingsCount, 0))
         \o <<" ", "r", "e", "v", "i", "e", "w", "s", ")">>

\* the record appended to books for one item
ParseItem(item) ==
    [title  |-> Get(item.volumeInfo.title, UnknownTitle),
     author |-> Join(Get(item.volumeInfo.authors, <<UnknownAuthor>>), CommaSpace),
     price  |-> ItemPrice(item.saleInfo),
     rating |-> ItemRating(item.volumeInfo)]

\* the loop over items[:num_books]
ParseItems(items, num_books) ==
    [i \in 1..Min(num_books, Len(items)) |-> ParseItem(items[i])]

-----------------------------------------------------------------------------
(* The cleaning of the DataFrame *)

\* variant: drop_duplicates(subset='title', keep='last')
DropDuplicatesKeepLast(books) ==
    LET keep == {i \in 1..Len(books) : \A j \in (i + 1)..Len(books) : books[j].title # books[i].title}
        F[i \in 0..Len(books)] ==
            IF i = 0 THEN <<>>
            ELSE IF i \in keep THEN Append(F[i - 1], books[i]) ELSE F[i - 1]
    IN  F[Len(books)]

\* df.drop_duplicates(subset='title'): keeps the first row of each title
DropDuplicates(books) ==
    LET keep == {i \in 1..Len(books) : \A j \in 1..(i - 1) : books[j].title # books[i].title}
        F[i \in 0..Len(books)] ==
            IF i = 0 THEN <<>>
            ELSE IF i \in keep THEN Append(F[i - 1], books[i]) ELSE F[i - 1]
    IN  F[Len(books)]

\* df.head(n)
DfHead(books, n) == Take(books, n)

\* variant: only the author column is cut
TruncateAuthorOnly(book) ==
    [title  |-> book.title,
     author |-> Take(book.author, TitleMax),
     price  |-> book.price,
     rating |-> book.rating]

\* df[col] = df[col].str[:k] for the four columns
Truncate(book) ==
    [title  |-> Take(book.title, TitleMax),
     author |-> Take(book.author, TitleMax),
     price  |-> Take(book.price, FieldMax),
     rating |-> Take(book.rating, FieldMax)]

\* books -> final_books
Normalize(books, num_books) ==
    IF Len(books) = 0 THEN <<>>
    ELSE LET df == DfHead(DropDuplicates(books), num_books)
         IN  [i \in 1..Len(df) |-> Truncate(df[i])]

-----------------------------------------------------------------------------
(* fetch_books_from_google_api *)

\* generate_sample_book_data(num_books): the name is bound nowhere in app.py
\* (no def, no import), so evaluating the call raises NameError.
generate_sample_book_data(num_books) ==
    [raised |-> TRUE, exc |-> "NameError", books |-> <<>>]

\* the body of the try block
TryBlock(num_books, response) ==
    IF response.kind = "network_error"
    THEN [raised |-> TRUE, exc |-> "RequestException", books |-> <<>>]
    ELSE IF response.status_code = 200
    THEN IF response.kind = "parse_error"
         THEN [raised |-> TRUE, exc |-> "Exception", books |-> <<>>]
         ELSE [raised |-> FALSE, exc |-> "none",
               books |-> ParseItems(response.items, num_books)]
    ELSE generate_sample_book_data(num_books)

\* try / except RequestException / except Exception: both handlers assign
\* books = generate_sample_book_data(num_books)
TryExcept(num_books, response) ==
    LET t == TryBlock(num_books, response)
    IN  IF t.raised THEN generate_sample_book_data(num_books) ELSE t

\* if not books: books = generate_sample_book_data(num_books)
SafetyNet(num_books, t) ==
    IF ~t.raised /\ Len(t.books) = 0 THEN generate_sample_book_data(num_books) ELSE t

\* the whole function: what it raises, and what it pushes to XCom
FetchBooks(num_books, response) ==
    LET t == SafetyNet(num_books, TryExcept(num_books, response))
    IN  [result      |-> IF t.raised THEN "raised" ELSE "ok",
         exc         |-> t.exc,
         maxResults  |-> Min(num_books, ApiMaxResults),
         books       |-> t.books,
         final_books |-> IF t.raised THEN <<>> ELSE Normalize(t.books, num_books)]

-----------------------------------------------------------------------------
(* insert_book_data_into_postgres *)

RowOf(id, book) ==
    [id |-> id, title |-> book.title, authors |-> book.author,
     price |-> book.price, rating |-> book.rating]

\* variant: a plain INSERT with no unique title and no ON CONFLICT clause
UpsertAlwaysInsert(db, book) ==
    [table |-> db.table \cup {RowOf(db.seq, book)}, seq |-> db.seq + 1]

\* INSERT ... ON CONFLICT (title) DO UPDATE SET authors, price, rating.
\* nextval of the id sequence is taken before the conflict is found.
Upsert(db, book) ==
    IF \E r \in db.table : r.title = book.title
    THEN [table |-> {IF r.title = book.title THEN RowOf(r.id, book) ELSE r : r \in db.table},
          seq   |-> db.seq + 1]
    ELSE [table |-> db.table \cup {RowOf(db.seq, book)}, seq |-> db.seq + 1]

\* variant: the first failing record ends the loop (break, not continue)
InsertLoopAbortOnError(db, book_data, fails) ==
    LET F[i \in 0..Len(book_data)] ==
            IF i = 0
            THEN [db |-> db, inserted_count |-> 0, attempts |-> <<>>, stop |-> FALSE]
            ELSE LET p == F[i - 1]
                 IN  IF p.stop THEN p
                     ELSE IF fails[i]
                     THEN [p EXCEPT !.attempts = Append(@, book_data[i].title), !.stop = TRUE]
                     ELSE [db |-> Upsert(p.db, book_data[i]),
                           inserted_count |-> p.inserted_count + 1,
                           attempts |-> Append(p.attempts, book_data[i].title),
                           stop |-> FALSE]
    IN  F[Len(book_data)]

\* for book in book_data: try run(insert_query) / except: log, continue.
\* fails[i] says that postgres_hook.run raises for book_data[i].
InsertLoop(db, book_data, fails) ==
    LET F[i \in 0..Len(book_data)] ==
            IF i = 0
            THEN [db |-> db, inserted_count |-> 0, attempts |-> <<>>]
            ELSE LET p == F[i - 1]
                 IN  IF fails[i]
                     THEN [p EXCEPT !.attempts = Append(@, book_data[i].title)]
                     ELSE [db |-> Upsert(p.db, book_data[i]),
                           inserted_count |-> p.inserted_count + 1,
                           attempts |-> Append(p.attempts, book_data[i].title)]
    IN  F[Len(book_data)]

\* the whole function. pulled is the XCom value (<<>> is None), countOK says
\* that get_first(count_query)[0] does not raise.
InsertBooks(db, pulled, fails, countOK) ==
    IF Len(pulled) = 0 \/ Len(pulled[1]) = 0
    THEN [result |-> "raised", exc |-> "ValueError", hook |-> FALSE,
          db |-> db, inserted_count |-> 0, attempts |-> <<>>,
          queryRan |-> FALSE, queryOK |-> FALSE]
    ELSE LET l == InsertLoop(db, pulled[1], fails)
         IN  [result |-> IF countOK THEN "ok" ELSE "raised",
              exc |-> IF countOK THEN "none" ELSE "count_query",
              hook |-> TRUE,
              db |-> l.db, inserted_count |-> l.inserted_count, attempts |-> l.attempts,
              queryRan |-> TRUE, queryOK |-> countOK]

-----------------------------------------------------------------------------
(* Inputs *)

SeqUpTo(S, n) == UNION {[1..k -> S] : k \in 0..n}

TitleK == <<"K", "8", "s">>
TitleLongX == Pad(TitleMax) \o <<"x">>
TitleLongY == Pad(TitleMax) \o <<"y">>
AuthorA == <<"A", "n", "n">>
AuthorB == <<"B", "o", "b">>
AuthorLong == Pad(TitleMax) \o <<"z">>
Usd == <<"U", "S", "D">>

Volume(title, authors, averageRating, ratingsCount) ==
    [title |-> title, authors |-> authors,
     averageRating |-> averageRating, ratingsCount |-> ratingsCount]

Sale(saleability, retailPrice) ==
    [saleability |-> saleability, retailPrice |-> retailPrice]

PriceInfo(amount, currencyCode) == [amount |-> amount, currencyCode |-> currencyCode]

Item(volumeInfo, saleInfo) == [volumeInfo |-> volumeInfo, saleInfo |-> saleInfo]

\* items of a response: every branch of the parsing, two items of one title,
\* two titles that agree on their first TitleMax characters
ItemKA == Item(Volume(<<TitleK>>, <<(<<AuthorA>>)>>, <<4>>, <<12>>),
               Sale(ForSale, <<PriceInfo(<<39>>, <<Usd>>)>>))
ItemKB == Item(Volume(<<TitleK>>, <<(<<AuthorB, AuthorA>>)>>, <<>>, <<>>),
               Sale(IsFree, <<>>))
ItemBare == Item(Volume(<<>>, <<>>, <<5>>, <<>>), Sale(<<>>, <<>>))
ItemLongX == Item(Volume(<<TitleLongX>>, <<(<<AuthorLong>>)>>, <<>>, <<7>>),
                  Sale(ForSale, <<PriceInfo(<<120>>, <<Pad(FieldMax)>>)>>))
ItemLongY == Item(Volume(<<TitleLongY>>, <<(<<AuthorA>>)>>, <<3>>, <<0>>),
                  Sale(ForSale, <<PriceInfo(<<>>, <<>>)>>))
ItemNoAmount == Item(Volume(<<AuthorB>>, <<(<<AuthorB>>)>>, <<>>, <<>>),
                     Sale(ForSale, <<PriceInfo(<<>>, <<Usd>>)>>))
ItemNoCurrency == Item(Volume(<<Usd>>, <<(<<AuthorA>>)>>, <<>>, <<>>),
                       Sale(ForSale, <<PriceInfo(<<8>>, <<>>)>>))

ItemPool == {ItemKA, ItemKB, ItemBare, ItemLongX, ItemLongY, ItemNoAmount, ItemNoCurrency}

Response(kind, status_code, items) ==
    [kind |-> kind, status_code |-> status_code, items |-> items]

Responses ==
    {Response("network_error", 0, <<>>), Response("bad_status", 500, <<>>),
     Response("parse_error", 200, <<>>)}
    \cup {Response("ok", 200, items) : items \in SeqUpTo(ItemPool, MaxItems)}

NumBooks == {1, 2, DefaultNumBooks, ApiMaxResults + 1}

\* records of a batch handed to insert on its own
Book(title, author, price, rating) ==
    [title |-> title, author |-> author, price |-> price, rating |-> rating]

BookPool == {Book(TitleK, AuthorA, Free, NA), Book(TitleK, AuthorB, NA, <<"4", "/", "5">>),
             Book(Usd, AuthorA, NA, NA)}

\* XCom values insert may pull on its own: None, [], or a batch of distinct records
Handoffs ==
    {<<>>} \cup {<<b>> : b \in {c \in SeqUpTo(BookPool, MaxBatch) :
                                   \A i, j \in 1..Len(c) : i # j => c[i] # c[j]}}

\* records given to the normalization step on its own
NormPool == {ParseItem(i) : i \in ItemPool}

-----------------------------------------------------------------------------
(* State *)

NotFetched ==
    [called |-> FALSE, num_books |-> 0, kind |-> "none", nitems |-> 0,
     maxResults |-> 0, result |-> "none", exc |-> "none"]

NotPersisted ==
    [called |-> FALSE, pulled |-> <<>>, fails |-> <<>>, result |-> "none",
     exc |-> "none", hook |-> FALSE, inserted_count |-> 0, attempts |-> <<>>,
     queryRan |-> FALSE, queryOK |-> FALSE, tableBefore |-> {}, repeat |-> FALSE]

NormIdle == [stage |-> "idle", books |-> <<>>, limit |-> 0, once |-> <<>>, twice |-> <<>>]

\* the table as the bootstrap leaves it, no run started
Init ==
    /\ phase = "create"
    /\ calls = 0
    /\ tries = 1
    /\ table = {}
    /\ seq = 1
    /\ xcom = <<>>
    /\ fetched = NotFetched
    /\ persisted = NotPersisted
    /\ norm = NormIdle

-----------------------------------------------------------------------------
(* The tasks of the DAG *)

\* a task that raised is tried again, Retries times; then the run has failed
AfterRaise ==
    IF tries <= Retries
    THEN /\ tries' = tries + 1
         /\ UNCHANGED phase
    ELSE /\ tries' = 1
         /\ phase' = "failed"

\* create_table: DROP TABLE IF EXISTS book; CREATE TABLE book (...)
CreateTable ==
    /\ phase = "create"
    /\ table' = {}
    /\ seq' = 1
    /\ phase' = "fetch"
    /\ tries' = 1
    /\ UNCHANGED <<calls, xcom, fetched, persisted, norm>>

\* fetch_book_data: fetch_books_from_google_api(num_books, ti)
FetchTask ==
    /\ phase = "fetch"
    /\ \E num_books \in NumBooks, response \in Responses :
         LET f == FetchBooks(num_books, response)
         IN  /\ fetched' = [called |-> TRUE, num_books |-> num_books,
                            kind |-> response.kind, nitems |-> Len(response.items),
                            maxResults |-> f.maxResults, result |-> f.result, exc |-> f.exc]
             /\ IF f.result = "ok"
                THEN /\ xcom' = <<f.final_books>>
                     /\ phase' = "insert"
                     /\ tries' = 1
                ELSE /\ xcom' = <<>>
                     /\ AfterRaise
    /\ UNCHANGED <<calls, table, seq, persisted, norm>>

\* what one call of insert_book_data_into_postgres does to the database
Persist(pulled, fails, countOK) ==
    LET p == InsertBooks([table |-> table, seq |-> seq], pulled, fails, countOK)
    IN  /\ table' = p.db.table
        /\ seq' = p.db.seq
        /\ persisted' =
             [called |-> TRUE, pulled |-> pulled, fails |-> fails,
              result |-> p.result, exc |-> p.exc, hook |-> p.hook,
              inserted_count |-> p.inserted_count, attempts |-> p.attempts,
              queryRan |-> p.queryRan, queryOK |-> p.queryOK,
              tableBefore |-> table,
              repeat |-> /\ persisted.called
                         /\ persisted.hook
                         /\ persisted.pulled = pulled
                         /\ persisted.inserted_count = Len(pulled[1])]

FailsOf(pulled) == [1..(IF Len(pulled) = 0 THEN 0 ELSE Len(pulled[1])) -> BOOLEAN]

\* insert_book_data: insert_book_data_into_postgres(ti)
InsertTask ==
    /\ phase = "insert"
    /\ \E fails \in FailsOf(xcom), countOK \in BOOLEAN :
         /\ Persist(xcom, fails, countOK)
         /\ IF persisted'.result = "ok"
            THEN /\ phase' = "success"
                 /\ tries' = 1
            ELSE AfterRaise
    /\ UNCHANGED <<calls, xcom, fetched, norm>>

\* the scheduler starts the next run (max_active_runs=1): a run has its own XCom
NextRun ==
    /\ phase \in {"success", "failed"}
    /\ phase' = "create"
    /\ tries' = 1
    /\ xcom' = <<>>
    /\ fetched' = NotFetched
    /\ persisted' = NotPersisted
    /\ UNCHANGED <<calls, table, seq, norm>>

Next == CreateTable \/ FetchTask \/ InsertTask \/ NextRun

Spec == Init /\ [][Next]_vars

-----------------------------------------------------------------------------
(* insert_book_data_into_postgres on its own, over any XCom value *)

InsertCall ==
    /\ calls < MaxCalls
    /\ calls' = calls + 1
    /\ \E pulled \in Handoffs :
         \E fails \in FailsOf(pulled), countOK \in BOOLEAN :
            /\ xcom' = pulled
            /\ Persist(pulled, fails, countOK)
    /\ UNCHANGED <<phase, tries, fetched, norm>>

InitPersist ==
    /\ phase = "insert"
    /\ calls = 0
    /\ tries = 1
    /\ table = {}
    /\ seq = 1
    /\ xcom = <<>>
    /\ fetched = NotFetched
    /\ persisted = NotPersisted
    /\ norm = NormIdle

NextPersist == InsertCall

SpecPersist == InitPersist /\ [][NextPersist]_vars

-----------------------------------------------------------------------------
(* The cleaning on its own, over any list of records *)

InitNormalize ==
    /\ phase = "fetch"
    /\ calls = 0
    /\ tries = 1
    /\ table = {}
    /\ seq = 1
    /\ xcom = <<>>
    /\ fetched = NotFetched
    /\ persisted = NotPersisted
    /\ \E books \in SeqUpTo(NormPool, MaxNormLen), limit \in 1..MaxNormLen :
         norm = [stage |-> "input", books |-> books, limit |-> limit,
                 once |-> <<>>, twice |-> <<>>]

NormalizeOnce ==
    /\ norm.stage = "input"
    /\ norm' = [norm EXCEPT !.stage = "once", !.once = Normalize(norm.books, norm.limit)]
    /\ UNCHANGED <<phase, calls, tries, table, seq, xcom, fetched, persisted>>

NormalizeAgain ==
    /\ norm.stage = "once"
    /\ norm' = [norm EXCEPT !.stage = "twice", !.twice = Normalize(norm.once, norm.limit)]
    /\ UNCHANGED <<phase, calls, tries, table, seq, xcom, fetched, persisted>>

NextNormalize == NormalizeOnce \/ NormalizeAgain

SpecNormalize == InitNormalize /\ [][NextNormalize]_vars

-----------------------------------------------------------------------------
(* Properties *)

Batch == xcom[1]

WellFormed(book) ==
    /\ DOMAIN book = {"title", "author", "price", "rating"}
    /\ Len(book.title) <= TitleMax
    /\ Len(book.author) <= TitleMax
    /\ Len(book.price) <= FieldMax
    /\ Len(book.rating) <= FieldMax

FallbackCase ==
    /\ fetched.called
    /\ \/ fetched.kind \in {"network_error", "bad_status"}
       \/ fetched.kind = "ok" /\ fetched.nitems = 0

\* C1: when the API call raises a network error, returns a non-200 status or
\* returns 200 with no items, fetch does not raise and hands off exactly
\* num_books well-formed records under book_data.
C1_FallbackHandsOffCount ==
    FallbackCase =>
        /\ fetched.result = "ok"
        /\ Len(xcom) = 1
        /\ Len(Batch) = fetched.num_books
        /\ \A i \in 1..Len(Batch) : WellFormed(Batch[i])

\* the batch and the failures of the last call of insert
Pulled == persisted.pulled[1]

Good == {i \in 1..Len(Pulled) : ~persisted.fails[i]}

\* the last record of the batch with the title of record i whose upsert succeeded
LastGood(i) ==
    CHOOSE j \in Good :
        /\ Pulled[j].title = Pulled[i].title
        /\ \A k \in Good : Pulled[k].title = Pulled[i].title => k <= j

RowsOf(tbl, title) == {r \in tbl : r.title = title}

\* C2: an upsert of a title already in the table overwrites that row's authors,
\* price and rating (the row keeps its id) and leaves one row of that title;
\* a batch whose upserts all succeed, persisted a second time right after the
\* first, leaves the table as the first left it.
C2_UpsertOverwritesAndRepeats ==
    persisted.hook =>
        /\ \A i \in Good :
             LET rows == RowsOf(table, Pulled[i].title)
                 old == RowsOf(persisted.tableBefore, Pulled[i].title)
                 last == Pulled[LastGood(i)]
             IN  /\ Cardinality(rows) = 1
                 /\ \A r \in rows :
                      /\ r.authors = last.author
                      /\ r.price = last.price
                      /\ r.rating = last.rating
                      /\ \A o \in old : r.id = o.id
        /\ \A r \in persisted.tableBefore :
             (\A i \in Good : Pulled[i].title # r.title) => r \in table
        /\ (persisted.repeat /\ Good = 1..Len(Pulled)) => table = persisted.tableBefore

\* C2 happens: a batch of two records of one title and different authors is
\* persisted twice in a row, every upsert succeeding, into a table that holds
\* another title from an earlier call.
C2_Witness ==
    /\ persisted.hook
    /\ persisted.repeat
    /\ Len(Pulled) = 2
    /\ Good = 1..Len(Pulled)
    /\ Pulled[1].title = Pulled[2].title
    /\ Pulled[1].author # Pulled[2].author
    /\ table = persisted.tableBefore
    /\ \E r \in table : r.title # Pulled[1].title

\* C3: in a non-empty batch of N records of which exactly one upsert fails,
\* every record is attempted in input order, the other N-1 are written,
\* inserted_count is N-1, and the failure alone does not make insert raise
\* (it returns normally when the row count query succeeds).
C3_OneFailureIsAbsorbed ==
    (persisted.hook /\ Cardinality(Good) = Len(Pulled) - 1) =>
        /\ persisted.attempts = [i \in 1..Len(Pulled) |-> Pulled[i].title]
        /\ persisted.inserted_count = Len(Pulled) - 1
        /\ \A i \in Good :
             \E r \in table :
                /\ r.title = Pulled[i].title
                /\ r.authors = Pulled[LastGood(i)].author
                /\ r.price = Pulled[LastGood(i)].price
                /\ r.rating = Pulled[LastGood(i)].rating
        /\ persisted.queryOK => persisted.result = "ok"

\* C3 happens: the first of two records fails, the second is written to a
\* table that did not hold it, and insert returns normally.
C3_Witness ==
    /\ persisted.hook
    /\ Len(Pulled) = 2
    /\ Good = {2}
    /\ persisted.inserted_count = 1
    /\ persisted.result = "ok"
    /\ RowsOf(persisted.tableBefore, Pulled[2].title) = {}
    /\ RowsOf(table, Pulled[2].title) # {}

EmptyInput == Len(persisted.pulled) = 0 \/ Len(persisted.pulled[1]) = 0

\* C4: on an empty or missing batch insert raises before it makes the hook or
\* attempts a write, and the table is unchanged; a non-empty batch of which
\* every record fails completes without raising.
C4_EmptyRaisesAllFailedDoesNot ==
    persisted.called =>
        /\ EmptyInput =>
             /\ persisted.result = "raised"
             /\ ~persisted.hook
             /\ persisted.attempts = <<>>
             /\ table = persisted.tableBefore
        /\ (~EmptyInput /\ Good = {}) => persisted.result = "ok"

\* C5: the cleaning (drop duplicates by title, head(limit), truncation of the
\* four columns) applied to its own output returns that output.
C5_NormalizeIdempotent ==
    norm.stage = "twice" => norm.twice = norm.once

\* C6: no two records of a batch that fetch hands off have the same title.
C6_BatchTitlesUnique ==
    (fetched.result = "ok" /\ Len(xcom) = 1) =>
        \A i, j \in 1..Len(Batch) : i # j => Batch[i].title # Batch[j].title

\* the places of the first record of each title of the input
FirstPlaces(books) ==
    {i \in 1..Len(books) : \A j \in 1..Len(books) : books[j].title = books[i].title => i <= j}

\* the k-th of a set of places, in order
Kth(places, k) == CHOOSE i \in places : Cardinality({j \in places : j <= i}) = k

\* C7: the output is the input's first records of each title, in input order,
\* cut to limit after the duplicates are dropped; each is that input record
\* with its fields cut to the column lengths, and is that input record itself
\* when its fields are within them.
C7_DedupKeepsFirst ==
    norm.stage \in {"once", "twice"} =>
        LET places == FirstPlaces(norm.books)
        IN  /\ Len(norm.once) = Min(norm.limit, Cardinality(places))
            /\ \A k \in 1..Len(norm.once) :
                 LET src == norm.books[Kth(places, k)]
                 IN  /\ norm.once[k].title = Take(src.title, TitleMax)
                     /\ norm.once[k].author = Take(src.author, TitleMax)
                     /\ norm.once[k].price = Take(src.price, FieldMax)
                     /\ norm.once[k].rating = Take(src.rating, FieldMax)
                     /\ WellFormed(src) => norm.once[k] = src

\* C7 happens: two records of one title and different authors and a third
\* title, limit 1: the output is the first record alone.
C7_Witness ==
    /\ norm.stage = "once"
    /\ Len(norm.books) = 3
    /\ norm.limit = 1
    /\ norm.books[1].title = norm.books[2].title
    /\ norm.books[1].author # norm.books[2].author
    /\ norm.books[3].title # norm.books[1].title
    /\ norm.once = <<norm.books[1]>>

\* C8: fetch asks the API for at most min(num_books, 40) results, and on a 200
\* response with at least one item hands off at most num_books records, each
\* with title and author of at most 200 and price and rating of at most 50
\* characters.
C8_BoundedOutput ==
    fetched.called =>
        /\ fetched.maxResults <= fetched.num_books
        /\ fetched.maxResults <= ApiMaxResults
        /\ (fetched.kind = "ok" /\ fetched.nitems >= 1) =>
             /\ fetched.result = "ok"
             /\ Len(xcom) = 1
             /\ Len(Batch) <= fetched.num_books
             /\ \A i \in 1..Len(Batch) : WellFormed(Batch[i])

\* C8 happens: more than 40 books asked for, 40 requested, and a record whose
\* title, author and price were cut to the column lengths is handed off.
C8_Witness ==
    /\ fetched.kind = "ok"
    /\ fetched.num_books > ApiMaxResults
    /\ fetched.maxResults = ApiMaxResults
    /\ Len(xcom) = 1
    /\ \E i \in 1..Len(Batch) :
         /\ Batch[i].title = Pad(TitleMax)
         /\ Len(Batch[i].author) = TitleMax
         /\ Len(Batch[i].price) = FieldMax

\* C9: the row count query is observability only: once the loop is over and
\* the query is run, insert returns normally whether the query succeeds or fails.
C9_CountQueryIsNoGate ==
    persisted.queryRan => persisted.result = "ok"

\* C10: no step of a run removes a title from the table.
C10_RowsNeverDeleted ==
    [][\A r \in table : \E q \in table' : q.title = r.title]_vars

====
